---- MODULE Spec2Model ----
(***************************************************************************)
(* GSHE: lossy compression that commutes with encryption, over 8-bit       *)
(* grayscale images.  Model of package gshe: NewImage, Encrypt, compress,   *)
(* Compress, Decrypt, decrypt and their helpers.                            *)
(*                                                                         *)
(* Go byte slices are modelled as sequences; Go index i is position i+1.   *)
(* All byte arithmetic is modulo 256.                                      *)
(***************************************************************************)
EXTENDS Integers, Sequences, FiniteSets, TLC

(***************************************************************************)
(* Bounds of the model.                                                    *)
(***************************************************************************)
\* raw widths and heights handed to NewImage range over 0..MaxDim
MaxDim == 4
\* images of the gradient family have 2*bw x 2*bh pixels, bw, bh in 1..MaxBlocks
MaxBlocks == 2
\* number of pairs in a payload handed to permuteHalfimage directly
MaxPairs == 4

(***************************************************************************)
(* Byte helpers.                                                           *)
(***************************************************************************)
Byte(n) == n % 256

At(s, i) == s[i + 1]

\* a slice with every element computed (the value is s itself)
Slice(s) == s \o <<>>

Min2(a, b) == IF a < b THEN a ELSE b

RECURSIVE Pow2(_)
Pow2(n) == IF n = 0 THEN 1 ELSE 2 * Pow2(n - 1)

\* math/bits.OnesCount8
RECURSIVE OnesCount8(_)
OnesCount8(x) == IF x = 0 THEN 0 ELSE (x % 2) + OnesCount8(x \div 2)

\* math/bits.TrailingZeros8 (8 for x = 0)
RECURSIVE TrailingZeros8(_)
TrailingZeros8(x) ==
    IF x = 0 THEN 8
    ELSE IF x % 2 = 1 THEN 0 ELSE 1 + TrailingZeros8(x \div 2)

(***************************************************************************)
(* Image and NewImage.                                                     *)
(***************************************************************************)
MkImage(pix, w, h, pw, ph) ==
    [Image |-> pix, Width |-> w, Height |-> h, PadWidth |-> pw, PadHeight |-> ph]

NoImage == MkImage(<<>>, 0, 0, FALSE, FALSE)

\* Image.At
ImageAt(img, x, y) == At(img.Image, y * img.Width + x)

\* NewImage: padded is make([]byte, 0, pw*ph), a slice of LENGTH 0, so
\* padded[y*pw:] panics as soon as y*pw > 0 and copy() copies nothing.
NewImage(data, width, height) ==
    IF Len(data) # width * height
    THEN [kind |-> "error", img |-> NoImage]
    ELSE IF width % 2 = 0 /\ height % 2 = 0
    THEN [kind |-> "ok", img |-> MkImage(data, width, height, FALSE, FALSE)]
    ELSE LET pw == width + (width % 2)
             ph == height + (height % 2)
         IN  IF width % 2 # 0 /\ (\E y \in 0..(height - 1) : y * pw > 0)
             THEN [kind |-> "panic", img |-> NoImage]
             ELSE [kind |-> "ok",
                   img |-> MkImage(<<>>, pw, ph, width % 2 # 0, height % 2 # 0)]

(***************************************************************************)
(* Keystream RNG.  newRNG and genSalt are not in the available sources;    *)
(* the keystream is a deterministic function of (key, salt, offset).       *)
(* A keystream is a finite prefix of bytes; bytes past it read as 0.       *)
(***************************************************************************)
KsLen == 12 * (MaxBlocks + 1) * (MaxBlocks + 1) + 24

\* stand-in for one AES-CTR keystream byte: a fixed mixing function, with
\* some 4-byte groups saturated so that rand.Int31n's rejection loop runs
KeystreamByte(key, salt, i) ==
    IF (i \div 4) % 5 = (key + salt) % 5
    THEN 255
    ELSE ((2 * key + 1) * (i * i + 3 * i + 41) + (salt + 1) * (i + 7) * 29
          + (key + salt + 1) * (i \div 3) * ((i \div 3) + 1) * 57 + key * salt * i) % 256

newRNG(key, salt) == Slice([i \in 1..KsLen |-> KeystreamByte(key, salt, i - 1)])

KsByte(ks, i) == IF i < Len(ks) THEN ks[i + 1] ELSE 0

\* rng.Read(buf) for len(buf) = n, from stream offset pos
KsRead(ks, pos, n) == Slice([i \in 1..n |-> KsByte(ks, pos + i - 1)])

\* source.Int63: reads 8 bytes, big endian, top bit masked.  The value is
\* kept as its top 31 bits (hi = Int63 >> 32), which is all that
\* rand.Int31 uses, and the stream offset after the read.
Int63(ks, pos) ==
    [hi |-> (KsByte(ks, pos) % 128) * 16777216 + KsByte(ks, pos + 1) * 65536
            + KsByte(ks, pos + 2) * 256 + KsByte(ks, pos + 3),
     pos |-> pos + 8]

\* 1<<31 - 1
MaxInt31 == (Pow2(30) - 1) * 2 + 1

\* math/rand (*Rand).Int31n, as called by Intn for n <= 1<<31 - 1: the value,
\* the stream offset after the call, and the offsets at which its calls of
\* source.Int63 read their 8 bytes
RECURSIVE Int31n(_, _, _)
Int31n(ks, pos, n) ==
    LET r == Int63(ks, pos)
        max == MaxInt31 - (((MaxInt31 % n) + 1) % n)
    IN  IF Pow2(TrailingZeros8(n % 256)) = n   \* n&(n-1) == 0, n < 256
        THEN [v |-> r.hi % n, pos |-> r.pos, offsets |-> <<pos>>]
        ELSE IF r.hi > max
        THEN LET again == Int31n(ks, r.pos, n)
             IN  [v |-> again.v, pos |-> again.pos,
                  offsets |-> <<pos>> \o again.offsets]
        ELSE [v |-> r.hi % n, pos |-> r.pos, offsets |-> <<pos>>]

\* math/rand (*Rand).Intn over source{rng}
Intn(ks, pos, n) == Int31n(ks, pos, n)

(***************************************************************************)
(* Encrypt and permuteHalfimage.                                           *)
(***************************************************************************)
SwapPairs(p, a, b) ==
    Slice([i \in 1..Len(p) |->
        IF i = 2 * a + 1 THEN p[2 * b + 1]
        ELSE IF i = 2 * a + 2 THEN p[2 * b + 2]
        ELSE IF i = 2 * b + 1 THEN p[2 * a + 1]
        ELSE IF i = 2 * b + 2 THEN p[2 * a + 2]
        ELSE p[i]])

\* one call of rng.Intn: its argument and the stream offsets it read at
MkDraw(bound, offsets) == [bound |-> bound, offsets |-> offsets]

\* permuteHalfimage from pair i on; returns the permuted slice, the stream
\* offset and the calls of rng.Intn in the order they were made
RECURSIVE permuteFrom(_, _, _, _)
permuteFrom(p, i, ks, pos) ==
    IF Len(p) - 2 * i <= 0
    THEN [p |-> p, pos |-> pos, draws |-> <<>>]
    ELSE LET bound == (Len(p) - 2 * i) \div 2
             r == Intn(ks, pos, bound)
             rest == permuteFrom(SwapPairs(p, i, i + r.v), i + 1, ks, r.pos)
         IN  [p |-> rest.p, pos |-> rest.pos,
              draws |-> <<MkDraw(bound, r.offsets)>> \o rest.draws]

permuteHalfimage(p, ks, pos) == permuteFrom(p, 0, ks, pos)

MkEncrypted(half, w, h, pw, ph, salt) ==
    [Halfimage |-> half, Width |-> w, Height |-> h,
     PadWidth |-> pw, PadHeight |-> ph, Salt |-> salt]

NoEncrypted == MkEncrypted(<<>>, 0, 0, FALSE, FALSE, 0)

\* the (x, y) of the top-left pixels visited by Encrypt's loops
Origins(img) ==
    {o \in (0..(img.Width - 1)) \X (0..(img.Height - 1)) :
        o[1] % 2 = 0 /\ o[2] % 2 = 0}

\* Encrypt indexes out of range (a run-time panic)
EncryptPanics(img) ==
    \E o \in Origins(img) :
        LET x == o[1]
            y == o[2]
        IN  \/ (y + 1) * img.Width + x + 1 >= Len(img.Image)
            \/ (((y \div 2) * img.Width) \div 2) + (x \div 2) >= Len(img.Image) \div 4
            \/ (y \div 2) * img.Width + x + 1 >= Len(img.Image) \div 2

\* maskAt
maskAt(img, mask, x, y) ==
    At(mask, (((y \div 2) * img.Width) \div 2) + (x \div 2))

\* the masked half-image with a different mask byte for the bottom-right
\* pixel of a block than for its top-left pixel
maskedHalfimagePerPixel(img, mask) ==
    Slice([i \in 1..(Len(img.Image) \div 2) |->
        LET h == i - 1
            by == h \div img.Width
            r == h % img.Width
            x == r - (r % 2)
            y == 2 * by
        IN  IF r % 2 = 0
            THEN Byte(ImageAt(img, x, y) + maskAt(img, mask, x, y))
            ELSE Byte(ImageAt(img, x + 1, y + 1) + maskAt(img, mask, x, y) + 1)])

\* the masked half-image before permutation; entry h (Go index) holds the
\* pixel (x, y) with (y/2)*Width + x = h
maskedHalfimage(img, mask) ==
    Slice([i \in 1..(Len(img.Image) \div 2) |->
        LET h == i - 1
            by == h \div img.Width
            r == h % img.Width
            x == r - (r % 2)
            y == 2 * by
        IN  IF r % 2 = 0
            THEN Byte(ImageAt(img, x, y) + maskAt(img, mask, x, y))
            ELSE Byte(ImageAt(img, x + 1, y + 1) + maskAt(img, mask, x, y))])

\* what a run consumed of the keystream: the read of the mask (offset and
\* length) and the calls of rng.Intn that followed
MkReads(pos, len, draws) == [mask |-> [pos |-> pos, len |-> len], draws |-> draws]

NoReads == MkReads(0, 0, <<>>)

\* Encrypt: the EncryptedImage and what it consumed of the keystream
EncryptRun(img, key, salt) ==
    LET ks == newRNG(key, salt)
        n == Len(img.Image) \div 4
        mask == KsRead(ks, 0, n)
        perm == permuteHalfimage(maskedHalfimage(img, mask), ks, n)
    IN  [enc |-> MkEncrypted(perm.p, img.Width, img.Height,
                             img.PadHeight, img.PadHeight, salt),
         reads |-> MkReads(0, n, perm.draws)]

Encrypt(img, key, salt) == EncryptRun(img, key, salt).enc

(***************************************************************************)
(* compress, makeQtable, Compress.                                         *)
(***************************************************************************)
MkCompressed(quarter, qtable, qdiffs, salt, w, h, pw, ph) ==
    [Quarterimage |-> quarter, Qtable |-> qtable, Qdiffs |-> qdiffs,
     Salt |-> salt, Width |-> w, Height |-> h, PadWidth |-> pw, PadHeight |-> ph]

NoCompressed == MkCompressed(<<>>, <<>>, <<>>, 0, 0, 0, FALSE, FALSE)

\* diffs[i/2] = img.Halfimage[i+1] - img.Halfimage[i]
Diffs(half) ==
    Slice([i \in 1..(Len(half) \div 2) |-> Byte(256 + half[2 * i] - half[2 * i - 1])])

\* int(distortion * distortion) with distortion := (v - j) & maskq, a byte:
\* the product is a byte product
DistortionTerm(v, j, q) ==
    LET distortion == Byte(256 + v - j) % q
    IN  Byte(distortion * distortion)

RECURSIVE DistortionSum(_, _, _, _)
DistortionSum(diffs, n, idx, q) ==
    IF n = 0 THEN 0
    ELSE DistortionSum(diffs, n - 1, idx, q)
         + (IF diffs[n] - (diffs[n] % q) = idx - (idx % q)
            THEN DistortionTerm(diffs[n], idx % q, q)
            ELSE 0)

\* the distortions accumulator of compress: a slice of 256 ints
Distortions(diffs, q) ==
    Slice([i \in 1..256 |-> DistortionSum(diffs, Len(diffs), i - 1, q)])

\* the inner loop of makeQtable for one k, over the offsets lo <= j < hi in
\* increasing order: cur is qtable[k] before the offsets, the result is
\* qtable[k] after them (the range is halved to keep the evaluation shallow)
RECURSIVE qtableScan(_, _, _, _, _)
qtableScan(distortions, base, cur, lo, hi) ==
    IF hi <= lo THEN cur
    ELSE IF hi = lo + 1
    THEN IF At(distortions, lo) < At(distortions, cur) THEN Byte(base + lo) ELSE cur
    ELSE LET mid == (lo + hi) \div 2
             left == qtableScan(distortions, base, cur, lo, mid)
         IN  IF left >= 0   \* always true: left is computed before the rest
             THEN qtableScan(distortions, base, left, mid, hi)
             ELSE left

\* makeQtable with the entries not shifted into their bucket
makeQtableUnshifted(distortions, quantization) ==
    LET logq == TrailingZeros8(quantization)
    IN  [i \in 1..(256 \div Pow2(logq)) |-> i - 1]

\* makeQtable rounding every bucket up to the first value of the next one
makeQtableRoundUp(distortions, quantization) ==
    LET logq == TrailingZeros8(quantization)
    IN  [i \in 1..(256 \div Pow2(logq)) |-> Byte(i * Pow2(logq))]

makeQtable(distortions, quantization) ==
    LET logq == TrailingZeros8(quantization)
    IN  [i \in 1..(256 \div Pow2(logq)) |->
            LET base == Byte((i - 1) * Pow2(logq))
            IN  qtableScan(distortions, base, base, 1, quantization)]

\* compress accepting every quantization with at most one bit set
compressZeroOk(img, quantization) ==
    [kind |-> IF OnesCount8(quantization) > 1 THEN "error" ELSE "ok",
     comp |-> NoCompressed]

compress(img, quantization) ==
    LET diffs == Diffs(img.Halfimage)
    IN  IF OnesCount8(quantization) # 1
        THEN [kind |-> "error", comp |-> NoCompressed]
        ELSE LET logq == TrailingZeros8(quantization)
                 distortions == Distortions(diffs, quantization)
                 qdiffs == [i \in 1..Len(diffs) |-> diffs[i] \div Pow2(logq)]
                 quarterimage == [i \in 1..Len(diffs) |-> img.Halfimage[2 * i - 1]]
             IN  [kind |-> "ok",
                  comp |-> MkCompressed(quarterimage,
                                        makeQtable(distortions, quantization),
                                        qdiffs, img.Salt, img.Width, img.Height,
                                        img.PadHeight, img.PadHeight)]

\* The entropy coder (FiniteStateEntropy/lib) is an opaque byte codec; a
\* delta coder stands in for it.  Encoding may fail.
fseEncode(src) ==
    [i \in 1..Len(src) |-> IF i = 1 THEN src[1] ELSE Byte(256 + src[i] - src[i - 1])]

RECURSIVE fseDecodeAt(_, _)
fseDecodeAt(enc, i) ==
    IF i = 1 THEN enc[1] ELSE Byte(fseDecodeAt(enc, i - 1) + enc[i])

fseDecode(enc) == Slice([i \in 1..Len(enc) |-> fseDecodeAt(enc, i)])

MkCompressedImage(quarter, qtable, encqdiffs, salt, w, h, pw, ph) ==
    [Quarterimage |-> quarter, Qtable |-> qtable, EncQdiffs |-> encqdiffs,
     Salt |-> salt, Width |-> w, Height |-> h, PadWidth |-> pw, PadHeight |-> ph]

NoCompressedImage == MkCompressedImage(<<>>, <<>>, <<>>, 0, 0, 0, FALSE, FALSE)

\* Compress; codecOk says whether fselib.Encode succeeds
Compress(img, quantization, codecOk) ==
    LET r == compress(img, quantization)
    IN  IF r.kind # "ok"
        THEN [kind |-> "error", cimg |-> NoCompressedImage]
        ELSE IF ~codecOk
        THEN [kind |-> "error", cimg |-> NoCompressedImage]
        ELSE [kind |-> "ok",
              cimg |-> MkCompressedImage(r.comp.Quarterimage, r.comp.Qtable,
                                         fseEncode(r.comp.Qdiffs), img.Salt,
                                         r.comp.Width, r.comp.Height,
                                         r.comp.PadWidth, r.comp.PadHeight)]

(***************************************************************************)
(* Context Adaptive Interpolation.                                         *)
(***************************************************************************)
absdiff(x, y) == IF x > y THEN x - y ELSE y - x

\* minmaxmedian without the second compare-and-swap (of b[1] and b[3])
minmaxmedianNoSecondSwap(p) ==
    LET b0 == IF p[1] < p[2] THEN p[1] ELSE p[2]
        b1 == IF p[1] < p[2] THEN p[2] ELSE p[1]
        b2 == IF p[3] < p[4] THEN p[3] ELSE p[4]
        b3 == IF p[3] < p[4] THEN p[4] ELSE p[3]
        c0 == IF b0 > b2 THEN b2 ELSE b0
    IN  <<c0, b3, b1>>

\* minmaxmedian: returns <<min, max, median>> = <<b[0], b[3], b[1]>>
minmaxmedian(p) ==
    LET b0 == IF p[1] < p[2] THEN p[1] ELSE p[2]
        b1 == IF p[1] < p[2] THEN p[2] ELSE p[1]
        b2 == IF p[3] < p[4] THEN p[3] ELSE p[4]
        b3 == IF p[3] < p[4] THEN p[4] ELSE p[3]
        c0 == IF b0 > b2 THEN b2 ELSE b0
        c2 == IF b0 > b2 THEN b0 ELSE b2
        c1 == IF b1 > b3 THEN b3 ELSE b1
        c3 == IF b1 > b3 THEN b1 ELSE b3
    IN  <<c0, c3, c1>>

\* cai without the edge tests: always the rounded mean of the four
caiMean(neighbors, threshold) ==
    Byte((neighbors[1] + neighbors[2] + neighbors[3] + neighbors[4] + 2) \div 4)

cai(neighbors, threshold) ==
    LET mmm == minmaxmedian(neighbors)
        min == mmm[1]
        max == mmm[2]
        median == mmm[3]
    IN  IF max - min <= threshold
        THEN Byte((neighbors[1] + neighbors[2] + neighbors[3] + neighbors[4] + 2) \div 4)
        ELSE IF absdiff(neighbors[2], neighbors[4]) - absdiff(neighbors[1], neighbors[3])
                    > threshold
        THEN Byte((neighbors[1] + neighbors[3] + 1) \div 2)
        ELSE IF absdiff(neighbors[1], neighbors[3]) - absdiff(neighbors[2], neighbors[4])
                    > threshold
        THEN Byte((neighbors[2] + neighbors[4] + 1) \div 2)
        ELSE median

\* interpolateBlocks reads only entries [0] and [3] of the blocks and writes
\* only [1] and [2], so every block is computed from the input blocks
interpolateBlocks(blocks, bw, bh, threshold) ==
    Slice([n \in 1..Len(blocks) |->
        LET i == n - 1
            x == i % bw
            y == i \div bw
            cur == blocks[n]
            north == IF y > 0 THEN At(blocks, (y - 1) * bw + x)[4] ELSE cur[4]
            east == IF x < bw - 1 THEN At(blocks, y * bw + x + 1)[1] ELSE cur[1]
            south == IF y < bh - 1 THEN At(blocks, (y + 1) * bw + x)[1] ELSE cur[1]
            west == IF x > 0 THEN At(blocks, y * bw + x - 1)[4] ELSE cur[4]
        IN  <<cur[1],
              cai(<<north, east, cur[4], cur[1]>>, threshold),
              cai(<<cur[1], cur[4], south, west>>, threshold),
              cur[4]>>])

(***************************************************************************)
(* decrypt, Decrypt, unpermuteBlocks.                                      *)
(***************************************************************************)
SwapAt(s, a, b) ==
    Slice([i \in 1..Len(s) |->
        IF i = a + 1 THEN s[b + 1] ELSE IF i = b + 1 THEN s[a + 1] ELSE s[i]])

\* the index shuffle drawing hi % bound from one word, without the rejection
\* loop of Int31n
RECURSIVE indicesFromNoReject(_, _, _, _)
indicesFromNoReject(s, i, ks, pos) ==
    IF Len(s) - i <= 0
    THEN [s |-> s, pos |-> pos, draws |-> <<>>]
    ELSE LET bound == Len(s) - i
             r == Int63(ks, pos)
             rest == indicesFromNoReject(SwapAt(s, i, i + (r.hi % bound)), i + 1,
                                         ks, r.pos)
         IN  [s |-> rest.s, pos |-> rest.pos,
              draws |-> <<MkDraw(bound, <<pos>>)>> \o rest.draws]

\* the index shuffle drawing over twice the remaining length and halving
\* the value: n := rng.Intn(2 * len(s)) / 2
RECURSIVE indicesFromDoubled(_, _, _, _)
indicesFromDoubled(s, i, ks, pos) ==
    IF Len(s) - i <= 0
    THEN [s |-> s, pos |-> pos, draws |-> <<>>]
    ELSE LET bound == 2 * (Len(s) - i)
             r == Intn(ks, pos, bound)
             rest == indicesFromDoubled(SwapAt(s, i, i + (r.v \div 2)), i + 1,
                                        ks, r.pos)
         IN  [s |-> rest.s, pos |-> rest.pos,
              draws |-> <<MkDraw(bound, r.offsets)>> \o rest.draws]

\* the index shuffle of unpermuteBlocks from position i on, with the calls
\* of rng.Intn in the order they were made
RECURSIVE indicesFrom(_, _, _, _)
indicesFrom(s, i, ks, pos) ==
    IF Len(s) - i <= 0
    THEN [s |-> s, pos |-> pos, draws |-> <<>>]
    ELSE LET bound == Len(s) - i
             r == Intn(ks, pos, bound)
             rest == indicesFrom(SwapAt(s, i, i + r.v), i + 1, ks, r.pos)
         IN  [s |-> rest.s, pos |-> rest.pos,
              draws |-> <<MkDraw(bound, r.offsets)>> \o rest.draws]

\* unpermuteBlocks applying the permutation forward: ret[i] = blocks[indices[i]]
unpermuteBlocksForward(blocks, ks, pos) ==
    LET indices == indicesFrom(Slice([i \in 1..Len(blocks) |-> i - 1]), 0, ks, pos).s
    IN  Slice([j \in 1..Len(blocks) |-> blocks[indices[j] + 1]])

\* unpermuteBlocks leaving the blocks where the encryptor put them
unpermuteBlocksIdentity(blocks, ks, pos) == blocks

\* the calls of rng.Intn made by unpermuteBlocks on n blocks
unpermuteDraws(n, ks, pos) ==
    indicesFrom(Slice([i \in 1..n |-> i - 1]), 0, ks, pos).draws

\* unpermuteBlocks: ret[indices[i]] = blocks[i]
unpermuteBlocks(blocks, ks, pos) ==
    LET indices == indicesFrom(Slice([i \in 1..Len(blocks) |-> i - 1]), 0, ks, pos).s
    IN  Slice([j \in 1..Len(blocks) |->
            blocks[CHOOSE i \in 1..Len(blocks) : indices[i] = j - 1]])

\* threshold := 20 in decrypt
Threshold == 20

\* decrypt: the Image and what it consumed of the keystream
decryptRun(img, key) ==
    LET n == Len(img.Quarterimage)
        blocks0 == Slice([i \in 1..n |->
                      <<img.Quarterimage[i], 0, 0,
                        Byte(img.Quarterimage[i] + At(img.Qtable, img.Qdiffs[i]))>>])
        ks == newRNG(key, img.Salt)
        mask == KsRead(ks, 0, n)
        blocks1 == unpermuteBlocks(blocks0, ks, n)
        blocks2 == Slice([i \in 1..n |->
                      <<Byte(256 + blocks1[i][1] - mask[i]), 0, 0,
                        Byte(256 + blocks1[i][4] - mask[i])>>])
        bw == img.Width \div 2
        bh == img.Height \div 2
        blocks == interpolateBlocks(blocks2, bw, bh, Threshold)
        image == [i \in 1..(n * 4) |->
                    LET p == i - 1
                        px == p % img.Width
                        py == p \div img.Width
                        b == At(blocks, (py \div 2) * bw + (px \div 2))
                    IN  b[(2 * (py % 2)) + (px % 2) + 1]]
    IN  [image |-> MkImage(image, img.Width, img.Height, img.PadWidth, img.PadHeight),
         reads |-> MkReads(0, n, unpermuteDraws(n, ks, n))]

decrypt(img, key) == decryptRun(img, key).image

DecryptRun(img, key) ==
    decryptRun(MkCompressed(img.Quarterimage, img.Qtable, fseDecode(img.EncQdiffs),
                            img.Salt, img.Width, img.Height,
                            img.PadHeight, img.PadHeight),
               key)

Decrypt(img, key) == DecryptRun(img, key).image

(***************************************************************************)
(* State.                                                                  *)
(*   pc     where the pipeline (or the unit under test) stands             *)
(*   op     the last function called                                       *)
(*   input  the arguments of NewImage: data, width, height                 *)
(*   key    the secret key                                                 *)
(*   img    the Image handed to Encrypt                                    *)
(*   enc    the EncryptedImage                                             *)
(*   q      the quantization handed to compress / Compress                 *)
(*   codec  whether fselib.Encode succeeded in the last Compress           *)
(*   comp   the compressedImage (compress), cimg the CompressedImage       *)
(*   dec    the decrypted Image                                            *)
(*   arg, ret  argument and result of a helper called on its own           *)
(*   reads  what the last Encrypt and the last decrypt consumed of the     *)
(*          keystream of their RNG                                          *)
(***************************************************************************)
VARIABLES pc, op, input, key, img, enc, q, codec, comp, cimg, dec, arg, ret, reads

vars == <<pc, op, input, key, img, enc, q, codec, comp, cimg, dec, arg, ret, reads>>

(***************************************************************************)
(* Inputs.                                                                 *)
(***************************************************************************)
Keys == {1, 2}

\* genSalt draws a fresh salt
Salts == {0, 1}

\* every valid quantization, zero, and some values that are no power of two
Quantizations == {0, 1, 2, 3, 4, 8, 12, 16, 32, 64, 128, 255}

ValidQuantizations == {1, 2, 4, 8, 16, 32, 64, 128}

\* pixel (x, y) of the pattern <<a, b, c, d>>
PatternPixel(pat, x, y) ==
    (pat[1] * x + pat[2] * y + pat[3] * x * y + pat[4]) % 256

Patterns == {<<0, 0, 0, 0>>, <<0, 21, 0, 10>>, <<1, 2, 0, 255>>, <<37, 101, 59, 250>>}

PatternData(pat, width, height, len) ==
    [i \in 1..len |-> PatternPixel(pat, (i - 1) % width, (i - 1) \div width)]

\* the arguments of NewImage: data of the right length, and data one byte
\* short
RawInputs ==
    {[data |-> PatternData(pat, w, h, w * h - short), width |-> w, height |-> h] :
        pat \in Patterns, w \in 0..MaxDim, h \in 0..MaxDim, short \in {0, 1}}
    \ {[data |-> PatternData(pat, w, h, 0 - 1), width |-> w, height |-> h] :
        pat \in Patterns, w \in 0..MaxDim, h \in 0..MaxDim}

\* row-constant images: row y holds rows[y + 1] in every column
RowValues == {10, 25, 60}

RowData(rows, width) ==
    [i \in 1..(width * Len(rows)) |-> rows[((i - 1) \div width) + 1]]

GradientInputs ==
    UNION {{[data |-> RowData(rows, 2 * bw), width |-> 2 * bw, height |-> 2 * bh] :
                rows \in [1..(2 * bh) -> RowValues]} :
            bw \in 1..MaxBlocks, bh \in 1..MaxBlocks}

InitWith(inputs) ==
    /\ pc = "start"
    /\ op = "none"
    /\ input \in inputs
    /\ key \in Keys
    /\ img = NoImage
    /\ enc = NoEncrypted
    /\ q = 0
    /\ codec = TRUE
    /\ comp = NoCompressed
    /\ cimg = NoCompressedImage
    /\ dec = NoImage
    /\ arg = <<>>
    /\ ret = <<>>
    /\ reads = [Encrypt |-> NoReads, decrypt |-> NoReads]

Init == InitWith(RawInputs)

(***************************************************************************)
(* Actions of the pipeline: one per exported call.                         *)
(***************************************************************************)
\* img, err := NewImage(data, width, height)
CallNewImage ==
    /\ pc = "start"
    /\ LET r == NewImage(input.data, input.width, input.height)
       IN  /\ pc' = IF r.kind = "ok" THEN "image" ELSE r.kind
           /\ img' = r.img
    /\ op' = "NewImage"
    /\ UNCHANGED <<input, key, enc, q, codec, comp, cimg, dec, arg, ret, reads>>

\* a caller that pads by itself builds the Image literal, with its flags
UseImage ==
    /\ pc = "start"
    /\ input.width % 2 = 0
    /\ input.height % 2 = 0
    /\ Len(input.data) = input.width * input.height
    /\ \E pw \in BOOLEAN, ph \in BOOLEAN :
          img' = MkImage(input.data, input.width, input.height, pw, ph)
    /\ pc' = "image"
    /\ op' = "Image"
    /\ UNCHANGED <<input, key, enc, q, codec, comp, cimg, dec, arg, ret, reads>>

\* enc, err := Encrypt(img, key)
CallEncrypt ==
    /\ pc = "image"
    /\ \E salt \in Salts :
          IF EncryptPanics(img)
          THEN pc' = "panic" /\ enc' = enc /\ reads' = reads
          ELSE LET r == EncryptRun(img, key, salt)
               IN  /\ pc' = "encrypted"
                   /\ enc' = r.enc
                   /\ reads' = [reads EXCEPT !.Encrypt = r.reads]
    /\ op' = "Encrypt"
    /\ UNCHANGED <<input, key, img, q, codec, comp, cimg, dec, arg, ret>>

\* comp, err := compress(enc, quantization)
Callcompress(Q) ==
    /\ pc = "encrypted"
    /\ \E quantization \in Q :
          LET r == compress(enc, quantization)
          IN  /\ q' = quantization
              /\ pc' = IF r.kind = "ok" THEN "compressed" ELSE "error"
              /\ comp' = r.comp
    /\ op' = "compress"
    /\ UNCHANGED <<input, key, img, enc, codec, cimg, dec, arg, ret, reads>>

\* comp, err := Compress(enc, quantization)
CallCompress(Q) ==
    /\ pc = "encrypted"
    /\ \E quantization \in Q, codecOk \in BOOLEAN :
          LET r == Compress(enc, quantization, codecOk)
          IN  /\ q' = quantization
              /\ codec' = codecOk
              /\ pc' = IF r.kind = "ok" THEN "Compressed" ELSE "error"
              /\ cimg' = r.cimg
    /\ op' = "Compress"
    /\ UNCHANGED <<input, key, img, enc, comp, dec, arg, ret, reads>>

\* dec, err := decrypt(comp, key)
Calldecrypt ==
    /\ pc = "compressed"
    /\ LET r == decryptRun(comp, key)
       IN  /\ dec' = r.image
           /\ reads' = [reads EXCEPT !.decrypt = r.reads]
    /\ pc' = "decrypted"
    /\ op' = "decrypt"
    /\ UNCHANGED <<input, key, img, enc, q, codec, comp, cimg, arg, ret>>

\* dec, err := Decrypt(comp, key)
CallDecrypt ==
    /\ pc = "Compressed"
    /\ LET r == DecryptRun(cimg, key)
       IN  /\ dec' = r.image
           /\ reads' = [reads EXCEPT !.decrypt = r.reads]
    /\ pc' = "decrypted"
    /\ op' = "Decrypt"
    /\ UNCHANGED <<input, key, img, enc, q, codec, comp, cimg, arg, ret>>

Next ==
    \/ CallNewImage
    \/ UseImage
    \/ CallEncrypt
    \/ Callcompress(Quantizations)
    \/ CallCompress(Quantizations)
    \/ Calldecrypt
    \/ CallDecrypt

Spec == Init /\ [][Next]_vars

(***************************************************************************)
(* The gradient round trip of TestDecryptGradient and                      *)
(* TestFullDecryptGradient: row-constant images at quantization 1.         *)
(***************************************************************************)
InitGradient == InitWith(GradientInputs)

NextGradient ==
    \/ CallNewImage
    \/ CallEncrypt
    \/ Callcompress({1})
    \/ CallCompress({1})
    \/ Calldecrypt
    \/ CallDecrypt

SpecGradient == InitGradient /\ [][NextGradient]_vars

(***************************************************************************)
(* TestPermute: permuteHalfimage on a payload, then unpermuteBlocks with   *)
(* an RNG restarted on the same stream.                                    *)
(***************************************************************************)
InitUnit(args, start) ==
    /\ pc = start
    /\ op = "none"
    /\ input = [data |-> <<>>, width |-> 0, height |-> 0]
    /\ key = 0
    /\ img = NoImage
    /\ enc = NoEncrypted
    /\ q = 0
    /\ codec = TRUE
    /\ comp = NoCompressed
    /\ cimg = NoCompressedImage
    /\ dec = NoImage
    /\ arg \in args
    /\ ret = <<>>
    /\ reads = [Encrypt |-> NoReads, decrypt |-> NoReads]

\* the first four bytes of an 8-byte keystream word; <<127, 255, 255, 255>>
\* and <<255, 255, 255, 255>> make Int31 return 1<<31 - 1
WordTops == {<<0, 0, 0, 1>>, <<0, 0, 1, 2>>, <<255, 255, 255, 255>>}

\* a keystream made of the words w[1], w[2], ...
WordStream(w) ==
    [i \in 1..(8 * Len(w)) |->
        IF (i - 1) % 8 < 4 THEN w[((i - 1) \div 8) + 1][((i - 1) % 8) + 1] ELSE 0]

PayloadSeeds == {1, 128}

PermuteArgs ==
    {[payload |-> [i \in 1..(2 * n) |-> (i * seed) % 256], ks |-> WordStream(w)] :
        n \in 0..MaxPairs, seed \in PayloadSeeds,
        w \in [1..(MaxPairs + 1) -> WordTops]}

InitPermute == InitUnit(PermuteArgs, "permute")

\* permuteHalfimage(halfimage, rng), on a fresh RNG: no mask was read
CallPermuteHalfimage ==
    /\ pc = "permute"
    /\ LET r == permuteHalfimage(arg.payload, arg.ks, 0)
       IN  /\ ret' = [halfimage |-> r.p, got |-> <<>>]
           /\ reads' = [reads EXCEPT !.Encrypt = MkReads(0, 0, r.draws)]
    /\ pc' = "permuted"
    /\ op' = "permuteHalfimage"
    /\ UNCHANGED <<input, key, img, enc, q, codec, comp, cimg, dec, arg>>

\* blocks = unpermuteBlocks(blocks, rng), with the pairs carried in
\* entries [0] and [1] of the blocks, then collected into got
CallUnpermuteBlocks ==
    /\ pc = "permuted"
    /\ LET blocks == [i \in 1..(Len(ret.halfimage) \div 2) |->
                        <<ret.halfimage[2 * i - 1], ret.halfimage[2 * i], 0, 0>>]
           out == unpermuteBlocks(blocks, arg.ks, 0)
       IN  ret' = [ret EXCEPT !.got =
                      [i \in 1..Len(ret.halfimage) |->
                          out[(i + 1) \div 2][2 - (i % 2)]]]
           /\ reads' = [reads EXCEPT
                           !.decrypt = MkReads(0, 0, unpermuteDraws(Len(blocks), arg.ks, 0))]
    /\ pc' = "unpermuted"
    /\ op' = "unpermuteBlocks"
    /\ UNCHANGED <<input, key, img, enc, q, codec, comp, cimg, dec, arg>>

NextPermute == CallPermuteHalfimage \/ CallUnpermuteBlocks

SpecPermute == InitPermute /\ [][NextPermute]_vars

(***************************************************************************)
(* TestMinMaxMedian: minmaxmedian on four bytes.                           *)
(***************************************************************************)
ByteSamples == {0, 1, 2, 127, 255}

InitMinMaxMedian == InitUnit([1..4 -> ByteSamples], "call")

CallMinmaxmedian ==
    /\ pc = "call"
    /\ ret' = minmaxmedian(arg)
    /\ pc' = "returned"
    /\ op' = "minmaxmedian"
    /\ UNCHANGED <<input, key, img, enc, q, codec, comp, cimg, dec, arg, reads>>

NextMinMaxMedian == CallMinmaxmedian

SpecMinMaxMedian == InitMinMaxMedian /\ [][NextMinMaxMedian]_vars

(***************************************************************************)
(* Properties.                                                             *)
(***************************************************************************)
\* block coordinates of an image of Width x Height pixels
BlockCoords(w, h) == (0..((w \div 2) - 1)) \X (0..((h \div 2) - 1))

\* img holds Width * Height pixels and both are even
WellFormed(image) ==
    /\ image.Width % 2 = 0
    /\ image.Height % 2 = 0
    /\ Len(image.Image) = image.Width * image.Height

\* C1: at quantization 1 the kept half-image is reconstructed exactly: in
\* decrypt(compress(Encrypt(img, key), 1), key) the top-left and the
\* bottom-right pixel of every 2x2 block equal the same pixels of img.
HalfimageExactAtQ1 ==
    (pc = "decrypted" /\ op = "decrypt" /\ q = 1) =>
        /\ dec.Width = img.Width
        /\ dec.Height = img.Height
        /\ Len(dec.Image) = Len(img.Image)
        /\ \A b \in BlockCoords(img.Width, img.Height) :
              /\ ImageAt(dec, 2 * b[1], 2 * b[2]) = ImageAt(img, 2 * b[1], 2 * b[2])
              /\ ImageAt(dec, 2 * b[1] + 1, 2 * b[2] + 1)
                    = ImageAt(img, 2 * b[1] + 1, 2 * b[2] + 1)

\* C1 witness: a 4x4 image went through Encrypt, compress at 1 and decrypt,
\* was masked and permuted on the way, and the interpolated pixels differ
WitnessHalfimageExactAtQ1 ==
    /\ pc = "decrypted"
    /\ op = "decrypt"
    /\ q = 1
    /\ img.Width = 4
    /\ img.Height = 4
    /\ dec.Image # img.Image
    /\ enc.Halfimage # maskedHalfimage(img, KsRead(newRNG(key, enc.Salt), 0, 4))
    /\ \E i \in 1..4 : KsRead(newRNG(key, enc.Salt), 0, 4)[i] # 0

\* C2: permuteHalfimage followed by unpermuteBlocks on the same stream
\* returns every pair to its original position.
PermuteUnpermuteRecovers ==
    (pc = "unpermuted") => ret.got = arg.payload

\* C2 witness: a payload of at least three pairs was really permuted, one
\* draw was rejected by Int31n, and the round trip is done
WitnessPermuteUnpermuteRecovers ==
    /\ pc = "unpermuted"
    /\ Len(arg.payload) >= 6
    /\ ret.halfimage # arg.payload
    /\ permuteHalfimage(arg.payload, arg.ks, 0).pos > 4 * Len(arg.payload)

\* the four neighbours (N, E, S, W) decrypt hands to cai for the top-right
\* and for the bottom-left pixel of block b, read from the source image
TopRightNeighbours(image, b) ==
    LET a == ImageAt(image, 2 * b[1], 2 * b[2])
        d == ImageAt(image, 2 * b[1] + 1, 2 * b[2] + 1)
    IN  <<IF b[2] > 0 THEN ImageAt(image, 2 * b[1] + 1, 2 * b[2] - 1) ELSE d,
          IF b[1] < (image.Width \div 2) - 1
          THEN ImageAt(image, 2 * b[1] + 2, 2 * b[2]) ELSE a,
          d, a>>

BottomLeftNeighbours(image, b) ==
    LET a == ImageAt(image, 2 * b[1], 2 * b[2])
        d == ImageAt(image, 2 * b[1] + 1, 2 * b[2] + 1)
    IN  <<a, d,
          IF b[2] < (image.Height \div 2) - 1
          THEN ImageAt(image, 2 * b[1], 2 * b[2] + 2) ELSE a,
          IF b[1] > 0 THEN ImageAt(image, 2 * b[1] - 1, 2 * b[2] + 1) ELSE d>>

\* north and south differ by more than the threshold, or all four are equal
EdgeOrFlat(n) ==
    \/ absdiff(n[1], n[3]) > 20
    \/ (n[1] = n[2] /\ n[2] = n[3] /\ n[3] = n[4])

RowConstant(image) ==
    \A x \in 0..(image.Width - 1), y \in 0..(image.Height - 1) :
        ImageAt(image, x, y) = ImageAt(image, 0, y)

GradientPrecondition(image) ==
    /\ WellFormed(image)
    /\ RowConstant(image)
    /\ \A b \in BlockCoords(image.Width, image.Height) :
          /\ EdgeOrFlat(TopRightNeighbours(image, b))
          /\ EdgeOrFlat(BottomLeftNeighbours(image, b))

\* C3: a row-constant image whose north and south neighbours, at every
\* interpolated pixel, differ by more than 20 or whose four neighbours are
\* equal is reproduced byte-exactly at quantization 1, by compress/decrypt
\* and by Compress/Decrypt.
GradientRoundTrip ==
    (pc = "decrypted" /\ q = 1 /\ GradientPrecondition(img)) =>
        dec.Image = img.Image

\* C3 witness: a 4-row image with two different stripes went through
\* Compress and Decrypt and meets the precondition
WitnessGradientRoundTrip ==
    /\ pc = "decrypted"
    /\ op = "Decrypt"
    /\ q = 1
    /\ GradientPrecondition(img)
    /\ img.Height = 4
    /\ img.Width = 4
    /\ ImageAt(img, 0, 0) # ImageAt(img, 0, 3)

\* log2 of a power of two
Log2(n) == CHOOSE e \in 0..8 : Pow2(e) = n

\* the offset j in [0, q) that minimizes distortions[base + j], the smallest
\* such j on ties
ArgminOffset(distortions, base, quantization) ==
    CHOOSE j \in 0..(quantization - 1) :
        \A j2 \in 0..(quantization - 1) :
            \/ At(distortions, base + j) < At(distortions, base + j2)
            \/ (At(distortions, base + j) = At(distortions, base + j2) /\ j <= j2)

\* C4: qtable[k] is (k << logq) + j* where j* minimizes
\* distortions[(k << logq) + j] among j in [0, q), ties to the smallest j.
QtableIsArgmin ==
    (pc = "compressed") =>
        LET distortions == Distortions(Diffs(enc.Halfimage), q)
        IN  \A k \in 0..(Len(comp.Qtable) - 1) :
                At(comp.Qtable, k) = k * q + ArgminOffset(distortions, k * q, q)

\* C5: the qtable produced by compress has length 256 / q and every entry's
\* top 8 - log2(q) bits equal its index.
QtableShape ==
    (pc \in {"compressed", "Compressed"}) =>
        LET qtable == IF pc = "compressed" THEN comp.Qtable ELSE cimg.Qtable
        IN  /\ q \in ValidQuantizations
            /\ Len(qtable) * q = 256
            /\ \A k \in 0..(Len(qtable) - 1) :
                  At(qtable, k) \div Pow2(Log2(q)) = k

\* C5 witness: a table for q = 4 in which some bucket's representative is
\* not the bucket's first value
WitnessQtableShape ==
    /\ pc = "compressed"
    /\ q = 4
    /\ Len(enc.Halfimage) > 0
    /\ \E k \in 0..(Len(comp.Qtable) - 1) : At(comp.Qtable, k) # 4 * k

\* the k-th smallest of the four bytes of p (k in 1..4)
OrderStatistic(p, k) ==
    CHOOSE v \in {p[i] : i \in 1..4} :
        /\ Cardinality({i \in 1..4 : p[i] < v}) < k
        /\ Cardinality({i \in 1..4 : p[i] <= v}) >= k

\* C6: minmaxmedian returns the minimum, the maximum and one of the two
\* middle order statistics, with min <= median <= max.
MinMaxMedianCorrect ==
    (pc = "returned") =>
        /\ ret[1] = OrderStatistic(arg, 1)
        /\ ret[2] = OrderStatistic(arg, 4)
        /\ ret[1] <= ret[3]
        /\ ret[3] <= ret[2]
        /\ ret[3] \in {OrderStatistic(arg, 2), OrderStatistic(arg, 3)}

\* C6 witness: an input with a repeated value whose median is strictly
\* between min and max
WitnessMinMaxMedianCorrect ==
    /\ pc = "returned"
    /\ arg[1] = arg[3]
    /\ arg[2] # arg[1]
    /\ ret[1] < ret[3]
    /\ ret[3] < ret[2]

\* the source block (Go index) that the permutation placed at each position:
\* the index slice shuffled by the draws that follow the n mask bytes
BlockOrder(k, salt, n) ==
    indicesFrom(Slice([i \in 1..n |-> i - 1]), 0, newRNG(k, salt), n).s

\* (src[bottom-right] - src[top-left]) mod 256 of source block j
SourceDiff(image, j) ==
    LET bw == image.Width \div 2
        x == 2 * (j % bw)
        y == 2 * (j \div bw)
    IN  Byte(256 + ImageAt(image, x + 1, y + 1) - ImageAt(image, x, y))

\* C7: each diffs[i] computed by compress from the encrypted half-image
\* equals the difference of the two kept pixels of the source block that
\* the permutation placed at position i, whatever the mask bytes; so do
\* the qdiffs.
DiffsIgnoreMask ==
    /\ (pc \in {"encrypted", "compressed", "Compressed", "decrypted"}) =>
          LET diffs == Diffs(enc.Halfimage)
              order == BlockOrder(key, enc.Salt, Len(diffs))
          IN  \A i \in 1..Len(diffs) : diffs[i] = SourceDiff(img, order[i])
    /\ (pc = "compressed") =>
          LET order == BlockOrder(key, enc.Salt, Len(comp.Qdiffs))
          IN  \A i \in 1..Len(comp.Qdiffs) :
                  comp.Qdiffs[i] = SourceDiff(img, order[i]) \div q

\* C7 witness: a 4x4 image with different block differences was masked
\* with non-zero bytes, permuted and compressed
WitnessDiffsIgnoreMask ==
    /\ pc = "compressed"
    /\ img.Width = 4
    /\ img.Height = 4
    /\ SourceDiff(img, 0) # SourceDiff(img, 3)
    /\ BlockOrder(key, enc.Salt, 4) # <<0, 1, 2, 3>>
    /\ \A i \in 1..4 : KsRead(newRNG(key, enc.Salt), 0, 4)[i] # 0

\* C8: shape metadata is copied through every stage: PadWidth, PadHeight,
\* Width and Height of the EncryptedImage, of the CompressedImage and of the
\* decrypted Image equal those of the Image given to Encrypt.
SameShape(a, b) ==
    /\ a.Width = b.Width
    /\ a.Height = b.Height
    /\ a.PadWidth = b.PadWidth
    /\ a.PadHeight = b.PadHeight

ShapeCopiedThrough ==
    /\ (pc \in {"encrypted", "compressed", "Compressed", "decrypted"}) =>
          SameShape(enc, img)
    /\ (pc = "Compressed") => SameShape(cimg, img)
    /\ (pc = "decrypted" /\ op = "Decrypt") => SameShape(dec, img)

\* C9: for len(data) = width*height NewImage returns an Image with even
\* Width and Height and Width*Height pixels, the original pixel at every
\* (x, y) of the input, zeros in the added column and row, and the flags
\* set exactly when the dimension was odd; it never fails or panics.
NewImagePads ==
    (op = "NewImage" /\ Len(input.data) = input.width * input.height) =>
        /\ pc = "image"
        /\ img.Width = input.width + (input.width % 2)
        /\ img.Height = input.height + (input.height % 2)
        /\ Len(img.Image) = img.Width * img.Height
        /\ img.PadWidth = (input.width % 2 = 1)
        /\ img.PadHeight = (input.height % 2 = 1)
        /\ \A x \in 0..(img.Width - 1), y \in 0..(img.Height - 1) :
              ImageAt(img, x, y) =
                  IF x < input.width /\ y < input.height
                  THEN At(input.data, y * input.width + x)
                  ELSE 0

\* C10 as stated: compress and Compress return an error and no result
\* exactly when the quantization is zero or no power of two.
ErrorExactlyOnBadQuantization ==
    (op \in {"compress", "Compress"}) =>
        /\ (pc = "error") <=> (q \notin ValidQuantizations)
        /\ (pc = "error") => (comp = NoCompressed /\ cimg = NoCompressedImage)
        /\ enc = Encrypt(img, key, enc.Salt)

\* C10 as amended: compress returns an error and no result exactly when the
\* quantization is zero or no power of two; Compress returns an error and
\* no result exactly then or when the entropy encoder fails; the input
\* EncryptedImage is what Encrypt returned in every case.
ErrorOnBadQuantizationOrCodec ==
    /\ (op = "compress") =>
          /\ (pc = "error") <=> (q \notin ValidQuantizations)
          /\ (pc = "compressed") <=> (q \in ValidQuantizations)
    /\ (op = "Compress") =>
          /\ (pc = "error") <=> (q \notin ValidQuantizations \/ ~codec)
          /\ (pc = "Compressed") <=> (q \in ValidQuantizations /\ codec)
    /\ (op \in {"compress", "Compress"}) =>
          /\ (pc = "error") => (comp = NoCompressed /\ cimg = NoCompressedImage)
          /\ enc = Encrypt(img, key, enc.Salt)

\* C10 witness: Compress failed at a valid quantization because the encoder
\* failed, on a non-empty image
WitnessErrorOnBadQuantizationOrCodec ==
    /\ op = "Compress"
    /\ pc = "error"
    /\ q = 128
    /\ ~codec
    /\ Len(enc.Halfimage) > 0

\* the integer square of the residual (v - j) & (q - 1)
ResidualSquare(v, j, quantization) ==
    LET residual == Byte(256 + v - j) % quantization
    IN  residual * residual

\* the sum of the integer squares over the first n diffs, for index idx
RECURSIVE ResidualSquareSum(_, _, _, _)
ResidualSquareSum(diffs, n, idx, quantization) ==
    IF n = 0 THEN 0
    ELSE ResidualSquareSum(diffs, n - 1, idx, quantization)
         + (IF diffs[n] \div quantization = idx \div quantization
            THEN ResidualSquare(diffs[n], idx % quantization, quantization)
            ELSE 0)

\* C11: for every valid quantization q, every difference v and every offset
\* j in [0, q), compress adds the integer square of (v - j) & (q - 1) to
\* distortions[(k << logq) + j], k = v >> logq, not the square cut to 8
\* bits: every entry of distortions is the sum of the integer squares.
DistortionIsIntegerSquare ==
    (pc = "compressed") =>
        LET diffs == Diffs(enc.Halfimage)
            distortions == Distortions(diffs, q)
        IN  \A idx \in 0..255 :
                At(distortions, idx) = ResidualSquareSum(diffs, Len(diffs), idx, q)

\* the stream offsets read by a sequence of draws, in the order of the draws
RECURSIVE DrawOffsets(_)
DrawOffsets(draws) ==
    IF draws = <<>> THEN <<>> ELSE Head(draws).offsets \o DrawOffsets(Tail(draws))

\* every read of 8 bytes starts where the read before it ended, the first
\* at offset start
Contiguous(offsets, start) ==
    \A i \in 1..Len(offsets) : offsets[i] = start + 8 * (i - 1)

\* C12: Encrypt and decrypt consume the keystream in the same sequence: each
\* first reads exactly W*H/4 mask bytes from offset 0 and only then makes
\* its permutation draws, from the offset after the mask on, and the k-th
\* draw of decrypt reads at the same stream offsets as the k-th draw of
\* Encrypt, for every k.
KeystreamSameSequence ==
    (pc = "decrypted") =>
        LET e == reads.Encrypt
            d == reads.decrypt
            n == (img.Width * img.Height) \div 4
        IN  /\ e.mask = [pos |-> 0, len |-> n]
            /\ d.mask = [pos |-> 0, len |-> n]
            /\ Contiguous(DrawOffsets(e.draws), n)
            /\ Contiguous(DrawOffsets(d.draws), n)
            /\ Len(d.draws) = Len(e.draws)
            /\ \A k \in 1..Len(d.draws) : d.draws[k].offsets = e.draws[k].offsets

\* C12 witness: a 4x4 image was encrypted and decrypted, four mask bytes
\* were read, and one of the four draws was rejected and read a second word
WitnessKeystreamSameSequence ==
    /\ pc = "decrypted"
    /\ op = "decrypt"
    /\ img.Width = 4
    /\ img.Height = 4
    /\ reads.decrypt.mask.len = 4
    /\ Len(reads.decrypt.draws) = 4
    /\ \E k \in 1..4 : Len(reads.decrypt.draws[k].offsets) = 2

\* the number of pairs that remain when permuteHalfimage makes its k-th
\* draw on a half-image of n pairs
RemainingPairs(n, k) == n - k + 1

\* C13 as stated: at its k-th step permuteHalfimage draws below the number
\* of remaining pairs, and unpermuteBlocks draws below twice that number.
DecryptorDrawsTwicePairs ==
    (pc = "unpermuted") =>
        LET e == reads.Encrypt.draws
            d == reads.decrypt.draws
            n == Len(arg.payload) \div 2
        IN  /\ Len(e) = n
            /\ Len(d) = n
            /\ \A k \in 1..n :
                  /\ e[k].bound = RemainingPairs(n, k)
                  /\ d[k].bound = 2 * RemainingPairs(n, k)

\* C13 as amended: at its k-th step permuteHalfimage draws below the number
\* of remaining pairs (len(p)/2) and unpermuteBlocks draws below the number
\* of remaining blocks (len(s)), which is the same number: both make one
\* draw per pair, with the bounds n, n - 1, ..., 1.
BothDrawRemainingPairs ==
    (pc = "unpermuted") =>
        LET e == reads.Encrypt.draws
            d == reads.decrypt.draws
            n == Len(arg.payload) \div 2
        IN  /\ Len(e) = n
            /\ Len(d) = n
            /\ \A k \in 1..n :
                  /\ e[k].bound = RemainingPairs(n, k)
                  /\ d[k].bound = RemainingPairs(n, k)

\* C13 witness: a half-image of four pairs was permuted and unpermuted, the
\* pairs really moved, and the first draw of the decryptor was below 4
WitnessBothDrawRemainingPairs ==
    /\ pc = "unpermuted"
    /\ Len(arg.payload) = 8
    /\ ret.halfimage # arg.payload
    /\ Len(reads.decrypt.draws) = 4
    /\ reads.decrypt.draws[1].bound = 4
    /\ reads.Encrypt.draws[4].bound = 1

\* b = a + e (mod 256) for an error e with |e| < bound
WithinError(a, b, bound) ==
    \E e \in (1 - bound)..(bound - 1) : b = Byte(256 + a + e)

\* C14: for every valid quantization q, in
\* decrypt(compress(Encrypt(img, key), q), key) the top-left pixel of every
\* 2x2 block equals the original, and the bottom-right pixel equals the
\* original plus an error e (mod 256) with |e| < q; qtable[qdiffs[i]] and
\* diffs[i] agree on their top 8 - log2(q) bits.
KeptPixelsWithinQuantization ==
    (pc = "decrypted" /\ op = "decrypt") =>
        /\ q \in ValidQuantizations
        /\ \A i \in 1..Len(comp.Qdiffs) :
              At(comp.Qtable, comp.Qdiffs[i]) \div q = Diffs(enc.Halfimage)[i] \div q
        /\ Len(dec.Image) = Len(img.Image)
        /\ \A b \in BlockCoords(img.Width, img.Height) :
              /\ ImageAt(dec, 2 * b[1], 2 * b[2]) = ImageAt(img, 2 * b[1], 2 * b[2])
              /\ WithinError(ImageAt(img, 2 * b[1] + 1, 2 * b[2] + 1),
                             ImageAt(dec, 2 * b[1] + 1, 2 * b[2] + 1), q)

\* C14 witness: a 4x4 image went through Encrypt, compress at 64 and
\* decrypt, and the bottom-right pixel of some block came back with an
\* error of 32 or more
WitnessKeptPixelsWithinQuantization ==
    /\ pc = "decrypted"
    /\ op = "decrypt"
    /\ q = 64
    /\ img.Width = 4
    /\ img.Height = 4
    /\ \E b \in BlockCoords(4, 4) :
          ~WithinError(ImageAt(img, 2 * b[1] + 1, 2 * b[2] + 1),
                       ImageAt(dec, 2 * b[1] + 1, 2 * b[2] + 1), 32)

====
